---------------------------- MODULE Spec2Model ----------------------------
(***************************************************************************)
(* Model of the Logitech HID++ touch drivers:                              *)
(*   drivers/hid/hid-logitech-tm.c   touch mice (T400 / T620)              *)
(*   drivers/hid/hid-logitech-wtp.c  wireless touchpad                     *)
(*                                                                         *)
(* The mouse session (struct tm_data) and the touchpad session (struct     *)
(* wtp_data) are two independent drivers.  Spec runs the mouse session     *)
(* from probe to remove (SpecFair: without stopping while a step is        *)
(* possible), SpecFingers runs it under raw-points frames, SpecOrigins     *)
(* does so for a mouse of each origin, SpecButtons runs it under the       *)
(* reports that carry buttons, SpecMotion under relative-motion reports,   *)
(* SpecWtp runs the touchpad session, SpecNegotiation the handshakes of    *)
(* both sessions and SpecEarly either session with reports delivered       *)
(* before it is ready.                                                     *)
(***************************************************************************)
EXTENDS Integers, Sequences, FiniteSets, TLC

VARIABLES
    tm_state,     \* lifecycle of the mouse session (tm_probe / tm_remove)
    device,       \* the physical mouse: product, feature table, geometry bytes
    fd,           \* struct tm_data
    work,         \* fd->work: "idle" | "pending" (kernel work item)
    slot_tid,     \* input core: tracking id last emitted for each MT slot
    events,       \* input events emitted by the last report handler
    cmd_log,      \* commands sent to the device by the last step
    attempt,      \* the negotiation attempt the last step made, if any
    raw_enabled,  \* an enable-raw-mode command has completed successfully
    last_id,      \* the tracking id handed out last before `events` (0: none)
    n_alloc,      \* tracking ids handed out frame by frame so far
    n_burst,      \* number of tap runs taken
    touched,      \* session fields the last step read or wrote, commands it
                  \* sent, each with whether fd->lock was held
    wtp,          \* touchpad session (struct wtp_data + hidpp_dev->initialized)
    wtp_obs,      \* what the last touchpad report did, and the frame so far
    wtp_attempt   \* commands the last step sent to the touchpad, if any

vars == <<tm_state, device, fd, work, slot_tid, events, cmd_log, attempt,
          raw_enabled, last_id, n_alloc, n_burst, touched, wtp, wtp_obs, wtp_attempt>>

tm_vars == <<tm_state, device, fd, work, slot_tid, events, cmd_log, attempt,
             raw_enabled, last_id, n_alloc, n_burst, touched>>

wtp_vars == <<wtp, wtp_obs, wtp_attempt>>

----------------------------------------------------------------------------
(* Bounds of the model *)

\* tracking ids handed out one frame at a time before the model stops
MaxAllocs == 3
\* accelerated tap runs (see TmTapRun)
MaxBursts == 1

----------------------------------------------------------------------------
(* Program constants *)

SOFTWARE_ID == 11
FEATURE_TOUCH_MOUSE_RAW_POINTS == 24848
FEATURE_TOUCH_MOUSE_1B03 == 6915

DEPRESSOR_NONE == 0
DEPRESSOR_MOUSE == 1
DEPRESSOR_RAWPTS == 2
DEPRESSOR_1B03 == 3

ORIGIN_LOWER_LEFT == 1
ORIGIN_LOWER_RIGHT == 2
ORIGIN_UPPER_LEFT == 3
ORIGIN_UPPER_RIGHT == 4

\* fd->next_tracking_id is reset to 1 when the increment reaches this value
TRACKING_ID_WRAP == 65535
\* tm_probe: fd->next_tracking_id = 1
FIRST_TRACKING_ID == 1

REPORT_ID_MOUSE == 2
REPORT_ID_HIDPP_LONG == 17

----------------------------------------------------------------------------
(* Fixed-width arithmetic *)

Pow2(n) == 2 ^ n

U8(x) == x % 256
U16(x) == x % 65536

Shr(x, k) == x \div Pow2(k)

\* bit i of x
BitAt(x, i) == (x \div Pow2(i)) % 2

\* a & b and a | b on non-negative values, bit by bit from the low end
RECURSIVE BitAnd(_, _)
BitAnd(a, b) ==
    IF a = 0 \/ b = 0 THEN 0
    ELSE (IF a % 2 = 1 /\ b % 2 = 1 THEN 1 ELSE 0)
         + 2 * BitAnd(a \div 2, b \div 2)

RECURSIVE BitOr(_, _)
BitOr(a, b) ==
    IF a = 0 THEN b
    ELSE IF b = 0 THEN a
    ELSE (IF a % 2 = 1 \/ b % 2 = 1 THEN 1 ELSE 0)
         + 2 * BitOr(a \div 2, b \div 2)

MIN(a, b) == IF a < b THEN a ELSE b
MAX(a, b) == IF a > b THEN a ELSE b

\* bytes[k] of a C byte buffer held as a TLA+ sequence
At(bytes, k) == bytes[k + 1]

----------------------------------------------------------------------------
(* Input events handed to the input core *)

NoSlot == -1
NoTrackingId == -1

\* an event on MT slot s (input_mt_slot(s) precedes it) or, with NoSlot, a
\* device-wide event
Ev(s, c, v) == [slot |-> s, code |-> c, value |-> v]

BoolVal(b) == IF b THEN 1 ELSE 0

----------------------------------------------------------------------------
(* emit_buttons *)

Buttons == 0 .. 2
idx_left == 0
idx_middle == 2
ButtonCode(i) == IF i = 0 THEN "BTN_LEFT" ELSE IF i = 1 THEN "BTN_RIGHT" ELSE "BTN_MIDDLE"

\* a mouse report that takes a button over whoever holds it
MouseTakesOver(dep, bytes, i) ==
    IF (At(bytes, 1) \div Pow2(i)) % 2 = 1 THEN DEPRESSOR_MOUSE ELSE DEPRESSOR_NONE

\* the loop body over the mouse report's button byte, for button i
MouseDepressor(dep, bytes, i) ==
    LET pressed == BitAnd(At(bytes, 1), U8(Pow2(i))) # 0 IN
    IF dep[i] = DEPRESSOR_NONE /\ pressed THEN DEPRESSOR_MOUSE
    ELSE IF dep[i] = DEPRESSOR_MOUSE /\ ~pressed THEN DEPRESSOR_NONE
    ELSE dep[i]

\* a first block that takes the mouse report on every model
MouseNeverIgnored(f, dep, bytes) ==
    IF At(bytes, 0) = REPORT_ID_MOUSE
    THEN [i \in Buttons |-> MouseDepressor(dep, bytes, i)]
    ELSE dep

\* first block: the mouse report (id 0x02), unless the model ignores it
ButtonsFromMouse(f, dep, bytes) ==
    IF At(bytes, 0) = REPORT_ID_MOUSE /\ ~f.ignore_mouse_report_buttons
    THEN [i \in Buttons |-> MouseDepressor(dep, bytes, i)]
    ELSE dep

\* a second block that drives the right button along with the middle one
Feature1B03DrivesRight(f, dep, bytes) ==
    IF At(bytes, 0) = REPORT_ID_HIDPP_LONG /\ At(bytes, 2) = f.feature_1b03
    THEN IF At(bytes, 5) # 0
         THEN [i \in Buttons |->
                 IF i # idx_left /\ dep[i] = DEPRESSOR_NONE
                 THEN DEPRESSOR_1B03 ELSE dep[i]]
         ELSE [i \in Buttons |->
                 IF dep[i] = DEPRESSOR_1B03 THEN DEPRESSOR_NONE ELSE dep[i]]
    ELSE dep

\* second block: the 0x1b03 feature report drives the middle button
ButtonsFrom1B03(f, dep, bytes) ==
    IF At(bytes, 0) = REPORT_ID_HIDPP_LONG /\ At(bytes, 2) = f.feature_1b03
    THEN IF dep[idx_middle] = DEPRESSOR_NONE /\ At(bytes, 5) # 0
         THEN [dep EXCEPT ![idx_middle] = DEPRESSOR_1B03]
         ELSE IF dep[idx_middle] = DEPRESSOR_1B03 /\ At(bytes, 5) = 0
         THEN [dep EXCEPT ![idx_middle] = DEPRESSOR_NONE]
         ELSE dep
    ELSE dep

\* third block: sub-event 1 of the raw-points feature drives the left button
ButtonsFromRawPts(f, dep, bytes) ==
    IF /\ At(bytes, 0) = REPORT_ID_HIDPP_LONG
       /\ At(bytes, 2) = f.mt_feature_index
       /\ Shr(At(bytes, 3), 4) = 1
    THEN IF dep[idx_left] = DEPRESSOR_NONE /\ BitAnd(At(bytes, 4), 2) # 0
         THEN [dep EXCEPT ![idx_left] = DEPRESSOR_RAWPTS]
         ELSE IF dep[idx_left] = DEPRESSOR_RAWPTS /\ BitAnd(At(bytes, 4), 2) = 0
         THEN [dep EXCEPT ![idx_left] = DEPRESSOR_NONE]
         ELSE dep
    ELSE dep

\* fd->button_depressor after emit_buttons(fd, bytes)
emit_buttons(f, bytes) ==
    ButtonsFromRawPts(f,
        ButtonsFrom1B03(f,
            ButtonsFromMouse(f, f.button_depressor, bytes), bytes), bytes)

\* the input_report_key calls that end emit_buttons
ButtonEvents(dep) ==
    [k \in 1 .. 3 |->
        Ev(NoSlot, ButtonCode(k - 1), BoolVal(dep[k - 1] # DEPRESSOR_NONE))]

----------------------------------------------------------------------------
(* emit_fingers *)

\* MT slots the model tracks in the input core
SinkSlots == 0 .. 3

Sentinel == <<255, 255, 255, 255>>

\* rec = bytes + 4 * i
Rec(bytes, i) == [k \in 0 .. 3 |-> At(bytes, 4 * i + k)]

\* a tracker that takes every record for a touch
NeverSentinel(rec) == FALSE

IsSentinel(rec) == rec[0] = 255 /\ rec[1] = 255 /\ rec[2] = 255 /\ rec[3] = 255

RawX(rec) == BitOr(rec[0] * 16, rec[2] % 16)
RawY(rec) == BitOr(rec[1] * 16, Shr(rec[2], 4))
WidthX(rec) == Shr(rec[3], 4) + 1
WidthY(rec) == (rec[3] % 16) + 1
Pressure(rec) == MIN(MAX(30, WidthX(rec) * WidthY(rec) * 3), 255)

\* a tracker that mirrors x for the origins of the lower edge
SwapXForLowerEdge(f) == f.tp_info.origin_position = ORIGIN_LOWER_LEFT
                        \/ f.tp_info.origin_position = ORIGIN_LOWER_RIGHT

SwapX(f) == f.tp_info.origin_position = ORIGIN_LOWER_RIGHT
            \/ f.tp_info.origin_position = ORIGIN_UPPER_RIGHT
SwapY(f) == f.tp_info.origin_position = ORIGIN_LOWER_LEFT
            \/ f.tp_info.origin_position = ORIGIN_LOWER_RIGHT

PosX(f, rec) == IF SwapX(f) THEN f.tp_info.x_size - RawX(rec) ELSE RawX(rec)
PosY(f, rec) == IF SwapY(f) THEN f.tp_info.y_size - RawY(rec) ELSE RawY(rec)

\* a counter that is not reset at 0xffff
IncrementOnly(n) == (n + 1) % 65536

\* fd->next_tracking_id++; if (fd->next_tracking_id == 0xffff) ... = 1;
NextTrackingId(n) ==
    IF U16(n + 1) = TRACKING_ID_WRAP THEN 1 ELSE U16(n + 1)

\* a tracker that keeps no memory of the previous frame
NoSlotWasUsed(prev, i) == FALSE

\* whether slot i was used by the previous frame: prev_slots_used & slot_mask
WasUsed(prev, i) == BitAnd(prev, U8(Pow2(i))) # 0

\* The loop body for slot i.  acc carries slots_used, next_tracking_id, the
\* events emitted so far and the ids allocated so far.
FingerStep(f, bytes, i, acc) ==
    LET rec == Rec(bytes, i)
        slot_mask == U8(Pow2(i))
        fresh == ~WasUsed(f.prev_slots_used, i)
    IN
    IF IsSentinel(rec)
    THEN [acc EXCEPT !.ev = Append(@, Ev(i, "ABS_MT_TRACKING_ID", NoTrackingId))]
    ELSE [slots_used |-> U8(BitOr(acc.slots_used, slot_mask)),
          next |-> IF fresh THEN NextTrackingId(acc.next) ELSE acc.next,
          allocated |-> IF fresh THEN Append(acc.allocated, acc.next)
                        ELSE acc.allocated,
          ev |-> (IF fresh
                  THEN Append(acc.ev, Ev(i, "ABS_MT_TRACKING_ID", acc.next))
                  ELSE acc.ev)
                 \o <<Ev(i, "ABS_MT_POSITION_X", PosX(f, rec)),
                      Ev(i, "ABS_MT_POSITION_Y", PosY(f, rec)),
                      Ev(i, "ABS_MT_PRESSURE", Pressure(rec))>>]

RECURSIVE FingerLoop(_, _, _, _)
FingerLoop(f, bytes, i, acc) ==
    IF i < f.tp_info.max_fingers
    THEN FingerLoop(f, bytes, i + 1, FingerStep(f, bytes, i, acc))
    ELSE acc

\* the four tool-classification events after the loop
ToolEvents(slots_used) ==
    <<Ev(NoSlot, "BTN_TOOL_FINGER", BoolVal(slots_used = 1)),
      Ev(NoSlot, "BTN_TOOL_DOUBLETAP", BoolVal(slots_used = 2)),
      Ev(NoSlot, "BTN_TOOL_TRIPLETAP", BoolVal(slots_used = 3)),
      Ev(NoSlot, "BTN_TOOL_QUADTAP", BoolVal(slots_used = 4))>>

\* emit_fingers(fd, bytes): the new prev_slots_used and next_tracking_id, the
\* ids allocated and the events emitted
emit_fingers(f, bytes) ==
    LET r == FingerLoop(f, bytes, 0,
                 [slots_used |-> 0, next |-> f.next_tracking_id,
                  allocated |-> <<>>, ev |-> <<>>])
    IN [prev_slots_used |-> r.slots_used,
        next_tracking_id |-> r.next,
        allocated |-> r.allocated,
        ev |-> r.ev \o ToolEvents(r.slots_used)]

\* the input core's slot table after a run of events: an ABS_MT_TRACKING_ID
\* event sets the id of its slot
IsTidEvent(e) == e.code = "ABS_MT_TRACKING_ID"

ApplyTids(tids, ev) ==
    LET tid_ev == SelectSeq(ev, IsTidEvent)
        last_for(s) == CHOOSE k \in DOMAIN tid_ev :
                          /\ tid_ev[k].slot = s
                          /\ \A m \in DOMAIN tid_ev :
                                tid_ev[m].slot = s => m <= k
    IN [s \in DOMAIN tids |->
          IF \E k \in DOMAIN tid_ev : tid_ev[k].slot = s
          THEN tid_ev[last_for(s)].value
          ELSE tids[s]]

----------------------------------------------------------------------------
(* The device and the command transport *)

\* what hidpp_send_rap_command_sync returns: 0, -ETIMEDOUT or a HID++ error
RetCodes == {0, -110, 2}

CmdSteps == 1 .. 5

\* One return code per command of the handshake, as the transport decides:
\* every command succeeds, exactly one fails, or all fail from one on.
Outcomes ==
    {[k \in CmdSteps |-> 0]}
    \cup {[k \in CmdSteps |-> IF k = bad THEN rc ELSE 0] :
            bad \in CmdSteps, rc \in RetCodes \ {0}}
    \cup {[k \in CmdSteps |-> IF k >= bad THEN rc ELSE 0] :
            bad \in CmdSteps, rc \in RetCodes \ {0}}

AllOk == [k \in CmdSteps |-> 0]

Hi(x) == Shr(x, 8)
Lo(x) == x % 256

\* the big-endian bytes of a geometry response
GeomBytes(x, y, res, origin, fingers, width) ==
    <<Hi(x), Lo(x), Hi(y), Lo(y), Hi(res), Lo(res), origin, fingers, width>>

\* The mice the model plugs in: product, the feature indices the device
\* assigns, the fingers it tracks and its geometry response.
Devices ==
    { [product |-> "T400", idx_rawpts |-> 5, idx_1b03 |-> 7, fingers |-> 2,
       geom |-> GeomBytes(3700, 2480, 1000, ORIGIN_LOWER_RIGHT, 2, 15)],
      [product |-> "T620", idx_rawpts |-> 6, idx_1b03 |-> 8, fingers |-> 3,
       geom |-> GeomBytes(1200, 900, 600, ORIGIN_UPPER_LEFT, 3, 12)] }

\* a mouse for each origin_position the geometry response can name
OriginDevices ==
    { [product |-> "T400", idx_rawpts |-> 5, idx_1b03 |-> 7, fingers |-> 2,
       geom |-> GeomBytes(3700, 2480, 1000, origin, 2, 15)] :
          origin \in {ORIGIN_LOWER_LEFT, ORIGIN_LOWER_RIGHT,
                      ORIGIN_UPPER_LEFT, ORIGIN_UPPER_RIGHT} }

\* tm_hidpp_send_sync: the request put on the wire
Cmd(name, feature_index, sub_index, params) ==
    [cmd |-> name,
     feature_index |-> feature_index,
     fn |-> BitOr(U8(sub_index * 16), SOFTWARE_ID),
     params |-> params]

\* response.rap.params of a command that succeeded
DeviceReply(dev, c) ==
    IF c.feature_index = 0 /\ Shr(c.fn, 4) = 1 THEN <<2, 0>>
    ELSE IF c.feature_index = 0 /\ Shr(c.fn, 4) = 0
    THEN LET id == c.params[1] * 256 + c.params[2] IN
         IF id = FEATURE_TOUCH_MOUSE_RAW_POINTS THEN <<dev.idx_rawpts>>
         ELSE IF id = FEATURE_TOUCH_MOUSE_1B03 THEN <<dev.idx_1b03>>
         ELSE <<0>>
    ELSE IF c.feature_index = dev.idx_rawpts /\ Shr(c.fn, 4) = 0 THEN dev.geom
    ELSE <<>>

\* fd->tp_info as parsed from the geometry response
ParseGeometry(p) ==
    [x_size |-> BitOr(U16(At(p, 0) * 256), At(p, 1)),
     y_size |-> BitOr(U16(At(p, 2) * 256), At(p, 3)),
     resolution |-> BitOr(U16(At(p, 4) * 256), At(p, 5)),
     origin_position |-> At(p, 6),
     max_fingers |-> At(p, 7),
     max_width |-> At(p, 8)]

\* what the transport returned for the first n commands
Returned(oc, n) == [k \in 1 .. n |-> oc[k]]

\* The body of tm_set_raw_report_state: the five commands in order, each
\* abandoned sequence returning -ret.  Gives the fields written, the return
\* value, the commands sent and what the transport returned for each.
NegotiationSequence(f, dev, oc) ==
    LET c1 == Cmd("root_version", 0, 1, <<>>)
        c2 == Cmd("resolve_rawpts", 0, 0,
                  <<Hi(FEATURE_TOUCH_MOUSE_RAW_POINTS),
                    Lo(FEATURE_TOUCH_MOUSE_RAW_POINTS)>>)
        c3 == Cmd("resolve_1b03", 0, 0,
                  <<Hi(FEATURE_TOUCH_MOUSE_1B03), Lo(FEATURE_TOUCH_MOUSE_1B03)>>)
        f_idx == At(DeviceReply(dev, c2), 0)
        f2 == [f EXCEPT !.mt_feature_index = f_idx]
        f3 == [f2 EXCEPT !.feature_1b03 = At(DeviceReply(dev, c3), 0)]
        c4 == Cmd("get_params", f_idx, 0, <<>>)
        f4 == [f3 EXCEPT !.tp_info = ParseGeometry(DeviceReply(dev, c4))]
        c5 == Cmd("enable_raw_mode", f_idx, 2, <<3>>)
    IN
    IF oc[1] # 0
    THEN [fd |-> f, ret |-> -oc[1], log |-> <<c1>>, rets |-> Returned(oc, 1)]
    ELSE IF oc[2] # 0
    THEN [fd |-> f, ret |-> -oc[2], log |-> <<c1, c2>>,
          rets |-> Returned(oc, 2)]
    ELSE IF oc[3] # 0
    THEN [fd |-> f2, ret |-> -oc[3], log |-> <<c1, c2, c3>>,
          rets |-> Returned(oc, 3)]
    ELSE IF oc[4] # 0
    THEN [fd |-> f3, ret |-> -oc[4], log |-> <<c1, c2, c3, c4>>,
          rets |-> Returned(oc, 4)]
    ELSE IF oc[5] # 0
    THEN [fd |-> f4, ret |-> -oc[5], log |-> <<c1, c2, c3, c4, c5>>,
          rets |-> Returned(oc, 5)]
    ELSE [fd |-> f4, ret |-> 0, log |-> <<c1, c2, c3, c4, c5>>,
          rets |-> Returned(oc, 5)]

\* a handshake that goes on when the root-version query fails
RootVersionBestEffort(f, dev, oc) ==
    [NegotiationSequence(f, dev, [oc EXCEPT ![1] = 0])
        EXCEPT !.rets = [@ EXCEPT ![1] = oc[1]]]

\* a handshake that goes on when the second feature lookup fails
LookupFailureIgnored(f, dev, oc) ==
    [NegotiationSequence(f, dev, [oc EXCEPT ![3] = 0])
        EXCEPT !.rets = IF Len(@) >= 3 THEN [@ EXCEPT ![3] = oc[3]] ELSE @]

tm_set_raw_report_state(f, dev, oc) == NegotiationSequence(f, dev, oc)

\* whether the attempt's enable-raw-mode command was sent and succeeded
RawModeAcked(r) ==
    r.ret = 0 /\ \E k \in DOMAIN r.log : r.log[k].cmd = "enable_raw_mode"

----------------------------------------------------------------------------
(* tm_raw_event *)

\* report->rap.params, the bytes after report_id, device_index, sub_id and
\* reg_address
Params(report) == SubSeq(report, 5, Len(report))

\* a decode that keeps the twelve bits and does not extend the sign
ZeroExtend12(value) == value % Pow2(12)

\* (value << shift) >> shift on a 32-bit int, shift = 32 - 12: the left
\* shift keeps the low 12 bits of value, bit 11 landing on the sign bit, and
\* the arithmetic right shift divides by 2^20 rounding down
SignExtend12(value) ==
    LET kept == value % Pow2(12)
        shifted == (kept % Pow2(11)) * Pow2(20)
                   + (kept \div Pow2(11)) * (-Pow2(30)) * 2
    IN (shifted - (shifted % Pow2(20))) \div Pow2(20)

RelX(report) ==
    SignExtend12(BitOr(At(report, 3), (At(report, 4) % 16) * 256))
RelY(report) ==
    SignExtend12(BitOr(At(report, 5) * 16, Shr(At(report, 4), 4)))

\* tm_raw_event past its early return: the motion, the fingers, the buttons
\* and input_sync
HandleReport(f, report) ==
    LET isFingers == /\ At(report, 0) = REPORT_ID_HIDPP_LONG
                     /\ At(report, 2) = f.mt_feature_index
                     /\ Shr(At(report, 3), 4) = 0
        fr == emit_fingers(f, Params(report))
        f1 == IF isFingers
              THEN [f EXCEPT !.prev_slots_used = fr.prev_slots_used,
                             !.next_tracking_id = fr.next_tracking_id]
              ELSE f
        ev1 == IF At(report, 0) = REPORT_ID_MOUSE
               THEN <<Ev(NoSlot, "REL_X", RelX(report)),
                      Ev(NoSlot, "REL_Y", RelY(report))>>
               ELSE IF isFingers THEN fr.ev ELSE <<>>
        dep == emit_buttons(f1, report)
    IN [fd |-> [f1 EXCEPT !.button_depressor = dep],
        allocated |-> IF isFingers THEN fr.allocated ELSE <<>>,
        ev |-> ev1 \o ButtonEvents(dep) \o <<Ev(NoSlot, "SYN_REPORT", 0)>>]

\* a handler that takes reports whether or not the sink is started
HandledBeforeStart(f, report) == HandleReport(f, report)

\* tm_raw_event(hidpp_dev, report): the session fields afterwards, the ids
\* allocated and the events emitted
tm_raw_event(f, report) ==
    IF ~f.hid_hw_started
    THEN [fd |-> f, allocated |-> <<>>, ev |-> <<>>]
    ELSE HandleReport(f, report)

----------------------------------------------------------------------------
(* Reports the transport delivers to the mouse session *)

Touch == <<18, 52, 86, 51>>
NearSentinel == <<255, 255, 255, 0>>
Records == {Sentinel, Touch, NearSentinel}

\* finger records a frame carries in the model; the rest of params is filled
\* with sentinels
FrameSlots == 0 .. 2

\* bytes of a long HID++ report: report_id, device_index, sub_id,
\* reg_address and params, which holds four finger records
ReportLen == 4 + 4 * Len(Sentinel)

Pad(bytes, n) == bytes \o [k \in 1 .. (n - Len(bytes)) |-> 0]

\* feature indices that show up in the sub_id byte of incoming reports: the
\* ones the mice assign, and 0, which the session holds before it has
\* resolved them
SubIds == {0, 5, 6, 7, 8}

\* a raw-points frame: sub-event 0 of feature index idx
FingerReport(idx, recs) ==
    <<REPORT_ID_HIDPP_LONG, 1, idx, 0>>
    \o recs[0] \o recs[1] \o recs[2] \o Sentinel

\* the frames a mouse sends: under its raw-points index, a record for each
\* finger it tracks and sentinels in the rest; and one sub-event 0 of its
\* other feature
FingerReportsOf(dev) ==
    {FingerReport(dev.idx_rawpts, recs) :
        recs \in {r \in [FrameSlots -> Records] :
                    \A j \in FrameSlots :
                        j >= dev.fingers => r[j] = Sentinel}}
    \cup {FingerReport(dev.idx_1b03, [j \in FrameSlots |-> Touch])}

\* a feature event that carries button bytes: sub-event 1
ButtonReports ==
    {Pad(<<REPORT_ID_HIDPP_LONG, 1, idx, 16, p0, p1>>, ReportLen) :
        idx \in SubIds, p0 \in {0, 2}, p1 \in {0, 1}}

\* relative-motion reports: button byte, then the three packed motion bytes
MouseReports ==
    {Pad(<<REPORT_ID_MOUSE, b, 0, m[1], m[2], m[3]>>, ReportLen) :
        b \in {0, 1, 2, 4, 5}, m \in {<<0, 0, 0>>, <<255, 127, 128>>}}

\* one report of each kind, for the runs that are about the session's
\* lifecycle
CoreReports ==
    {FingerReport(idx, [j \in FrameSlots |-> IF j = 0 THEN Touch ELSE Sentinel]) :
        idx \in {0, 5}}
    \cup {Pad(<<REPORT_ID_HIDPP_LONG, 1, 7, 16, 0, 1>>, ReportLen),
          Pad(<<REPORT_ID_MOUSE, 1, 0, 255, 127, 128>>, ReportLen)}

----------------------------------------------------------------------------
(* Accesses to the session fields and fd->lock *)

\* a read or a write of a field of struct tm_data, or the sending of a
\* command, with or without fd->lock held
Acc(field, op, locked) == [field |-> field, op |-> op, locked |-> locked]

\* tm_set_raw_report_state run to the result r: it sends commands and
\* stores the reply of each lookup and of the geometry query that succeeded.
\* held: whether the caller holds fd->lock around the call (the function
\* takes no lock itself).
NegotiationAccesses(r, held) ==
    LET ok == IF r.ret = 0 THEN Len(r.rets) ELSE Len(r.rets) - 1 IN
    (IF r.log # <<>> THEN {Acc("command", "send", held)} ELSE {})
    \cup (IF ok >= 2 THEN {Acc("mt_feature_index", "write", held)} ELSE {})
    \cup (IF ok >= 3 THEN {Acc("feature_1b03", "write", held)} ELSE {})
    \cup (IF ok >= 4 THEN {Acc("tp_info", "write", held)} ELSE {})

\* tm_raw_event, emit_fingers and emit_buttons take no lock
RawEventAccesses(f, report) ==
    {Acc("hid_hw_started", "read", FALSE)}
    \cup (IF f.hid_hw_started /\ At(report, 0) = REPORT_ID_HIDPP_LONG
          THEN {Acc("mt_feature_index", "read", FALSE),
                Acc("feature_1b03", "read", FALSE)}
          ELSE {})
    \cup (IF /\ f.hid_hw_started
             /\ At(report, 0) = REPORT_ID_HIDPP_LONG
             /\ At(report, 2) = f.mt_feature_index
             /\ Shr(At(report, 3), 4) = 0
          THEN {Acc("tp_info", "read", FALSE)}
          ELSE {})

\* the second half of tm_probe takes no lock
ProbeAccesses(r, hw_ret) ==
    NegotiationAccesses(r, FALSE)
    \cup {Acc("in_raw_mode", "write", FALSE)}
    \cup (IF hw_ret = 0 THEN {Acc("hid_hw_started", "write", FALSE)} ELSE {})

\* tm_connect_change takes no lock
ConnectAccesses(connected, r) ==
    IF connected
    THEN {Acc("hid_hw_started", "read", FALSE)} \cup NegotiationAccesses(r, FALSE)
    ELSE {}

\* delayedwork_callback holds fd->lock around its test of in_raw_mode and
\* around its final assignments, and releases it in between
WorkAccesses(f, r, hw_ret) ==
    {Acc("in_raw_mode", "read", TRUE)}
    \cup (IF f.in_raw_mode THEN {}
          ELSE NegotiationAccesses(r, FALSE)
               \cup (IF r.ret = 0
                     THEN {Acc("hid_hw_started", "read", FALSE)} ELSE {})
               \cup (IF r.ret = 0 /\ ~f.hid_hw_started /\ hw_ret = 0
                     THEN {Acc("hid_hw_started", "write", FALSE),
                           Acc("in_raw_mode", "write", TRUE)}
                     ELSE {})
               \cup (IF r.ret = 0 /\ f.hid_hw_started
                     THEN {Acc("in_raw_mode", "write", TRUE)} ELSE {}))

----------------------------------------------------------------------------
(* The mouse session *)

\* kzalloc'ed struct tm_data with the assignments of tm_probe
InitFd(dev) ==
    [tp_info |-> [x_size |-> 0, y_size |-> 0, resolution |-> 0,
                  origin_position |-> 0, max_fingers |-> 0, max_width |-> 0],
     mt_feature_index |-> 0,
     feature_1b03 |-> 0,
     next_tracking_id |-> FIRST_TRACKING_ID,
     prev_slots_used |-> 0,
     button_depressor |-> [i \in Buttons |-> DEPRESSOR_NONE],
     ignore_mouse_report_buttons |-> (dev.product = "T620"),
     hid_hw_started |-> FALSE,
     in_raw_mode |-> FALSE,
     raw_switch_requested |-> FALSE]

NoAttempt == [by |-> "none", ret |-> 0, failed_at |-> 0, rets |-> <<>>]

\* the record kept of a negotiation attempt r run by `who`
Attempt(who, r) ==
    [by |-> who, ret |-> r.ret,
     failed_at |-> IF r.ret = 0 THEN 0 ELSE Len(r.log),
     rets |-> r.rets]

\* ids handed out by a run of events, in order
IsIdEvent(e) == e.code = "ABS_MT_TRACKING_ID" /\ e.value # NoTrackingId

EmittedIds(ev) ==
    LET id_ev == SelectSeq(ev, IsIdEvent)
    IN [k \in DOMAIN id_ev |-> id_ev[k].value]

LastId(prev, ev) ==
    LET ids == EmittedIds(ev) IN
    IF ids = <<>> THEN prev ELSE ids[Len(ids)]

\* the session before tm_probe, with one of the mice of D plugged in
TmStart(D) ==
    /\ tm_state = "unbound"
    /\ device \in D
    /\ fd = InitFd(device)
    /\ work = "idle"
    /\ slot_tid = [s \in SinkSlots |-> NoTrackingId]
    /\ events = <<>>
    /\ cmd_log = <<>>
    /\ attempt = NoAttempt
    /\ raw_enabled = FALSE
    /\ last_id = 0
    /\ n_alloc = 0
    /\ n_burst = 0
    /\ touched = {}

TmInit == TmStart(Devices)

\* a step that sends no command to the device
NoCommands == cmd_log' = <<>> /\ attempt' = NoAttempt

\* a step that emits no input event
NoEvents == events' = <<>> /\ last_id' = LastId(last_id, events)

\* a step that runs the negotiation attempt r on behalf of `who`
Negotiated(who, r) ==
    /\ cmd_log' = r.log
    /\ attempt' = IF r.log = <<>> THEN NoAttempt ELSE Attempt(who, r)
    /\ raw_enabled' = (raw_enabled \/ RawModeAcked(r))

\* tm_probe up to and including hidpp_init: from here on the transport may
\* deliver reports and connect events to the session
TmProbeBegin ==
    /\ tm_state = "unbound"
    /\ \E use_raw_mode \in BOOLEAN,
          res \in {"ok", "nomem", "parse_failed", "init_failed"} :
          tm_state' = IF ~use_raw_mode THEN "standard"
                      ELSE IF res = "ok" THEN "probing"
                      ELSE IF res = "nomem" THEN "failed"
                      ELSE "freed"
    /\ fd' = InitFd(device)
    /\ touched' = {}
    /\ NoCommands
    /\ NoEvents
    /\ UNCHANGED <<device, work, slot_tid, raw_enabled, n_alloc, n_burst,
                   wtp_vars>>

\* the rest of tm_probe: the handshake, in_raw_mode = 1, hid_hw_start
tm_probe(f, dev, oc, hw_ret) ==
    LET r == tm_set_raw_report_state(f, dev, oc)
        f1 == [r.fd EXCEPT !.in_raw_mode = TRUE]
    IN [fd |-> IF hw_ret = 0 THEN [f1 EXCEPT !.hid_hw_started = TRUE] ELSE f1,
        state |-> IF hw_ret = 0 THEN "bound" ELSE "freed",
        neg |-> r]

TmProbeFinish ==
    /\ tm_state = "probing"
    /\ \E oc \in Outcomes, hw_ret \in {0, -19} :
       \E p \in {tm_probe(fd, device, oc, hw_ret)} :
          /\ fd' = p.fd
          /\ tm_state' = p.state
          /\ Negotiated("probe", p.neg)
          /\ touched' = ProbeAccesses(p.neg, hw_ret)
    /\ NoEvents
    /\ UNCHANGED <<device, work, slot_tid, n_alloc, n_burst, wtp_vars>>

\* hidpp_raw_event -> tm_raw_event, for one delivered report out of R
TmRawEventOf(R) ==
    /\ tm_state \in {"probing", "bound"}
    /\ \E report \in R :
       \E r \in {tm_raw_event(fd, report)} :
          /\ n_alloc + Len(r.allocated) <= MaxAllocs
          /\ fd' = r.fd
          /\ events' = r.ev
          /\ slot_tid' = ApplyTids(slot_tid, r.ev)
          /\ n_alloc' = n_alloc + Len(r.allocated)
          /\ touched' = RawEventAccesses(fd, report)
    /\ last_id' = LastId(last_id, events)
    /\ NoCommands
    /\ UNCHANGED <<tm_state, device, work, raw_enabled, n_burst, wtp_vars>>

\* tm_connect_change
tm_connect_change(f, dev, connected, oc) ==
    IF connected /\ f.hid_hw_started
    THEN tm_set_raw_report_state(f, dev, oc)
    ELSE [fd |-> f, ret |-> 0, log |-> <<>>, rets |-> <<>>]

TmConnectChange ==
    /\ tm_state \in {"probing", "bound"}
    /\ \E connected \in BOOLEAN, oc \in Outcomes :
       \E r \in {tm_connect_change(fd, device, connected, oc)} :
          /\ fd' = r.fd
          /\ Negotiated("connect", r)
          /\ touched' = ConnectAccesses(connected, r)
    /\ NoEvents
    /\ UNCHANGED <<tm_state, device, work, slot_tid, n_alloc, n_burst,
                   wtp_vars>>

\* tm_remove: cancel_work_sync, hid_hw_stop, free
TmRemove ==
    /\ tm_state = "bound"
    /\ tm_state' = "removed"
    /\ work' = "idle"
    /\ touched' = {}
    /\ NoCommands
    /\ NoEvents
    /\ UNCHANGED <<device, fd, slot_tid, raw_enabled, n_alloc, n_burst,
                   wtp_vars>>

----------------------------------------------------------------------------
(* A run of taps, taken in one step *)

\* NextTrackingId applied k times to an id n in 1 .. TRACKING_ID_WRAP - 1:
\* the ids run through 1 .. TRACKING_ID_WRAP - 1 in a cycle
IterateNextId(n, k) == ((n - 1 + k) % (TRACKING_ID_WRAP - 1)) + 1

\* length of a tap run: one allocation short of a full cycle of the ids
TapRuns == {TRACKING_ID_WRAP - 2}

\* the frame of a tap on slot i: the fingers that are down stay down, slot i
\* is down or lifted
TapFrame(f, i, down) ==
    FingerReport(f.mt_feature_index,
        [j \in FrameSlots |->
            IF j = i THEN (IF down THEN Touch ELSE Sentinel)
            ELSE IF WasUsed(f.prev_slots_used, j) THEN Touch ELSE Sentinel])

\* n taps on the free slot i while the other fingers rest: 2n consecutive
\* calls of tm_raw_event, alternately with TapFrame(i, TRUE) and
\* TapFrame(i, FALSE).  Each of the first n - 1 taps only moves
\* next_tracking_id on by one allocation and leaves every other field as it
\* found it (slot i is lifted again, no button source matches); the last tap
\* is run through tm_raw_event frame by frame.
TmTapRun ==
    /\ tm_state = "bound"
    /\ fd.hid_hw_started
    /\ n_burst < MaxBursts
    /\ fd.mt_feature_index # fd.feature_1b03
    /\ \E i \in FrameSlots, n \in TapRuns :
          /\ i < fd.tp_info.max_fingers
          /\ ~WasUsed(fd.prev_slots_used, i)
          /\ \E f0 \in {[fd EXCEPT !.next_tracking_id = IterateNextId(@, n - 1)]} :
             \E down \in {tm_raw_event(f0, TapFrame(f0, i, TRUE))} :
             \E up \in {tm_raw_event(down.fd, TapFrame(f0, i, FALSE))} :
                /\ fd' = up.fd
                /\ events' = up.ev
                /\ slot_tid' = ApplyTids(ApplyTids(slot_tid, down.ev), up.ev)
                /\ last_id' = LastId(last_id, down.ev)
                /\ touched' = RawEventAccesses(down.fd, TapFrame(f0, i, FALSE))
    /\ n_burst' = n_burst + 1
    /\ NoCommands
    /\ UNCHANGED <<tm_state, device, work, raw_enabled, n_alloc, wtp_vars>>

----------------------------------------------------------------------------
(* The deferred raw-mode switch (fd->work) *)

\* delayedwork_callback
delayedwork_callback(f, dev, oc, hw_ret) ==
    IF f.in_raw_mode
    THEN [fd |-> f, ret |-> 0, log |-> <<>>, rets |-> <<>>]
    ELSE
    LET r == tm_set_raw_report_state(f, dev, oc)
        start == r.ret = 0 /\ ~r.fd.hid_hw_started
        ret == IF start THEN hw_ret ELSE r.ret
        f1 == IF start /\ hw_ret = 0
              THEN [r.fd EXCEPT !.hid_hw_started = TRUE] ELSE r.fd
        f2 == IF ret = 0 THEN [f1 EXCEPT !.in_raw_mode = TRUE] ELSE f1
    IN [fd |-> [f2 EXCEPT !.raw_switch_requested = FALSE],
        ret |-> r.ret, log |-> r.log, rets |-> r.rets]

\* the work queue runs the work item once it has been queued.  tm_probe
\* initialises fd->work and tm_remove cancels it; no statement of the driver
\* queues it or sets raw_switch_requested, so work is never "pending" and this
\* step is not among those of the session.
DelayedWork ==
    /\ tm_state \in {"probing", "bound"}
    /\ work = "pending"
    /\ work' = "idle"
    /\ \E oc \in Outcomes, hw_ret \in {0, -19} :
       \E r \in {delayedwork_callback(fd, device, oc, hw_ret)} :
          /\ fd' = r.fd
          /\ Negotiated("work", r)
          /\ touched' = WorkAccesses(fd, r, hw_ret)
    /\ NoEvents
    /\ UNCHANGED <<tm_state, device, slot_tid, n_alloc, n_burst, wtp_vars>>

----------------------------------------------------------------------------
(* The touchpad session (hid-logitech-wtp.c) *)

X_SIZE == 3700
Y_SIZE == 2480

\* ARRAY_SIZE(fd->slots)
WTP_SLOTS == 5
WtpSlots == 0 .. (WTP_SLOTS - 1)

\* hidpp_touchpad_touch_event: one 7-byte touch sub-record decoded
hidpp_touchpad_touch_event(t) ==
    [contact_type |-> Shr(t.x_m, 6),
     x |-> U16(BitOr(U8(t.x_m * 4) * 64, t.x_l)),
     contact_status |-> Shr(t.y_m, 6),
     y |-> U16(BitOr(U8(t.y_m * 4) * 64, t.y_l)),
     finger_id |-> Shr(t.id, 4),
     z |-> t.z,
     area |-> t.area]

\* whether the second touch sub-record is part of the report
SecondTouch(end_of_frame, finger_count) ==
    \/ end_of_frame /\ finger_count = 4
    \/ ~end_of_frame /\ finger_count >= 2

\* hidpp_touchpad_raw_xy_event: struct hidpp_touchpad_raw_xy built on the
\* stack from the two sub-records; fingers holds the entries that are set
DecodeRawXY(touches) ==
    LET eof == touches[1].id % 2
        fc == touches[2].id % 16
    IN [end_of_frame |-> eof,
        spurious_flag |-> Shr(touches[1].id, 1) % 2,
        finger_count |-> fc,
        fingers |->
            IF fc = 0 THEN <<>>
            ELSE IF SecondTouch(eof # 0, fc)
            THEN <<hidpp_touchpad_touch_event(touches[1]),
                   hidpp_touchpad_touch_event(touches[2])>>
            ELSE <<hidpp_touchpad_touch_event(touches[1])>>]

\* wtp_touch_event: slot = finger_id - 1 indexes fd->slots unchecked.  A
\* write with index -1 lands on the two bytes before the array
\* (button_feature_index, maxcontacts), one with index 5 on the bytes that
\* follow the array; in neither case on an element of the array, and no
\* handler reads what is overwritten.  The model records that the write
\* happened (oob_write) and leaves the array as it is.
wtp_touch_event(w, finger) ==
    LET slot == finger.finger_id - 1
        status == finger.contact_status # 0
        ev == <<Ev(slot, "MT_SLOT_STATE", BoolVal(status))>>
              \o (IF status
                  THEN <<Ev(slot, "ABS_MT_POSITION_X", finger.x),
                         Ev(slot, "ABS_MT_POSITION_Y", finger.y),
                         Ev(slot, "ABS_MT_PRESSURE", finger.area)>>
                  ELSE <<>>)
    IN [fd |-> IF slot \in WtpSlots
               THEN [w EXCEPT !.slots[slot] =
                        [touch_state |-> status, seen_in_this_frame |-> TRUE]]
               ELSE [w EXCEPT !.oob_write = TRUE],
        ev |-> ev]

\* the touch part of wtp_touchpad_raw_xy_event
WtpTouches(w, raw) ==
    LET none == [fd |-> w, ev |-> <<>>] IN
    IF raw.finger_count = 0 THEN none
    ELSE LET a == wtp_touch_event(w, raw.fingers[1]) IN
         IF SecondTouch(raw.end_of_frame # 0, raw.finger_count)
         THEN LET b == wtp_touch_event(a.fd, raw.fingers[2]) IN
              [fd |-> b.fd, ev |-> a.ev \o b.ev]
         ELSE a

\* a handler for which every report ends the frame
FlushOnEveryReport(w, raw) ==
    IF ~w.initialized THEN [fd |-> w, ev |-> <<>>, ret |-> 0]
    ELSE LET t == WtpTouches(w, raw) IN
         [fd |-> [t.fd EXCEPT !.slots =
                    [i \in WtpSlots |->
                        [touch_state |-> t.fd.slots[i].seen_in_this_frame
                                         /\ t.fd.slots[i].touch_state,
                         seen_in_this_frame |-> FALSE]]],
          ev |-> t.ev, ret |-> 1]

\* a boundary test that looks at end_of_frame only
EndOfFrameOnly(raw) == raw.end_of_frame # 0

\* the frame boundary test
WtpBoundary(raw) == raw.end_of_frame # 0 \/ raw.finger_count <= 2

\* events that retire the slots not seen in the frame
RECURSIVE WtpRetireEvents(_, _)
WtpRetireEvents(slots, i) ==
    IF i >= WTP_SLOTS THEN <<>>
    ELSE (IF ~slots[i].seen_in_this_frame /\ slots[i].touch_state
          THEN <<Ev(i, "MT_SLOT_STATE", 0)>> ELSE <<>>)
         \o WtpRetireEvents(slots, i + 1)

\* the loop at a frame boundary: retire the unseen slots, reset the flags
WtpFlush(slots) ==
    [i \in WtpSlots |->
        [touch_state |-> IF ~slots[i].seen_in_this_frame /\ slots[i].touch_state
                         THEN FALSE ELSE slots[i].touch_state,
         seen_in_this_frame |-> FALSE]]

WtpToolEvents(finger_count) ==
    <<Ev(NoSlot, "BTN_TOOL_FINGER", BoolVal(finger_count = 1)),
      Ev(NoSlot, "BTN_TOOL_DOUBLETAP", BoolVal(finger_count = 2)),
      Ev(NoSlot, "BTN_TOOL_TRIPLETAP", BoolVal(finger_count = 3)),
      Ev(NoSlot, "BTN_TOOL_QUADTAP", BoolVal(finger_count = 4)),
      Ev(NoSlot, "SYN_REPORT", 0)>>

\* wtp_touchpad_raw_xy_event
wtp_touchpad_raw_xy_event(w, raw) ==
    IF ~w.initialized THEN [fd |-> w, ev |-> <<>>, ret |-> 0]
    ELSE
    LET t == WtpTouches(w, raw) IN
    IF WtpBoundary(raw)
    THEN [fd |-> [t.fd EXCEPT !.slots = WtpFlush(t.fd.slots)],
          ev |-> t.ev \o WtpRetireEvents(t.fd.slots, 0)
                 \o WtpToolEvents(raw.finger_count),
          ret |-> 1]
    ELSE [fd |-> t.fd, ev |-> t.ev, ret |-> 1]

CMD_TOUCHPAD_GET_RAW_INFO == 1
CMD_TOUCHPAD_SET_RAW_REPORT_STATE == 33
WTP_RAW_XY_FEAT_INDEX == 15

\* hidpp_send_fap_command_sync(hidpp_dev, WTP_RAW_XY_FEAT_INDEX, cmd, ...):
\* the request put on the wire
WtpCmd(name, cmd, params) ==
    [cmd |-> name, feature_index |-> WTP_RAW_XY_FEAT_INDEX, fn |-> cmd,
     params |-> params]

\* hidpp_touchpad_set_raw_report_state: one command, rc what the transport
\* returns for it
hidpp_touchpad_set_raw_report_state(send_raw_reports, force_vs_area, sensor_enhanced_settings, rc) ==
    [ret |-> -rc,
     cmd |-> WtpCmd("set_raw_report_state", CMD_TOUCHPAD_SET_RAW_REPORT_STATE,
                    <<BitOr(BitOr(BoolVal(send_raw_reports),
                                  2 * BoolVal(force_vs_area)),
                            4 * BoolVal(sensor_enhanced_settings))>>)]

\* hidpp_touchpad_get_raw_info: one command; x_size and y_size of the reply
hidpp_touchpad_get_raw_info(rc, params) ==
    [ret |-> -rc,
     cmd |-> WtpCmd("get_raw_info", CMD_TOUCHPAD_GET_RAW_INFO, <<>>),
     x_size |-> BitOr(U16(At(params, 0) * 256), At(params, 1)),
     y_size |-> BitOr(U16(At(params, 2) * 256), At(params, 3))]

\* wtp_device_init: hidpp_touchpad_set_raw_report_state, then
\* hidpp_touchpad_get_raw_info
wtp_device_init(w, oc_state, oc_info, params) ==
    LET st == hidpp_touchpad_set_raw_report_state(TRUE, TRUE, TRUE, oc_state)
        info == hidpp_touchpad_get_raw_info(oc_info, params)
    IN
    IF st.ret # 0
    THEN [fd |-> w, ret |-> st.ret, log |-> <<st.cmd>>, rets |-> <<oc_state>>]
    ELSE IF info.ret # 0
    THEN [fd |-> w, ret |-> info.ret, log |-> <<st.cmd, info.cmd>>,
          rets |-> <<oc_state, oc_info>>]
    ELSE [fd |-> [w EXCEPT !.x_size = info.x_size, !.y_size = info.y_size],
          ret |-> 0, log |-> <<st.cmd, info.cmd>>,
          rets |-> <<oc_state, oc_info>>]

\* wtp_connect_change
wtp_connect_change(w, connected, rc) ==
    IF connected /\ w.initialized
    THEN LET st == hidpp_touchpad_set_raw_report_state(TRUE, TRUE, TRUE, rc)
         IN [fd |-> w, ret |-> st.ret, log |-> <<st.cmd>>, rets |-> <<rc>>]
    ELSE [fd |-> w, ret |-> 0, log |-> <<>>, rets |-> <<>>]

\* kzalloc'ed struct wtp_data with the assignments of wtp_probe
InitWtp ==
    [initialized |-> FALSE,
     x_size |-> 0, y_size |-> 0,
     mt_feature_index |-> 15,
     button_feature_index |-> 2,
     maxcontacts |-> 5,
     slots |-> [i \in WtpSlots |->
                   [touch_state |-> FALSE, seen_in_this_frame |-> FALSE]],
     oob_write |-> FALSE]

\* what the records of a report say of a slot: "down", "up", or nothing
Unnamed == "unnamed"

\* what is known of the last report handled: its end_of_frame and
\* finger_count, what its records say of each slot (hit), what the records
\* since the last report that ended a frame say of each slot (named), and
\* the events it produced
NoWtpObs ==
    [handled |-> FALSE, end_of_frame |-> FALSE, finger_count |-> 0,
     hit |-> [i \in WtpSlots |-> Unnamed],
     named |-> [i \in WtpSlots |-> Unnamed],
     ev |-> <<>>]

\* the report ends a frame: end_of_frame is set or finger_count <= 2
EndsFrame(obs) == obs.end_of_frame \/ obs.finger_count <= 2

NoWtpAttempt == [by |-> "none", ret |-> 0, log |-> <<>>, rets |-> <<>>]

\* the record kept of the commands r that `who` sent to the touchpad
WtpAttempt(who, r) ==
    IF r.log = <<>> THEN NoWtpAttempt
    ELSE [by |-> who, ret |-> r.ret, log |-> r.log, rets |-> r.rets]

WtpInit ==
    /\ wtp = InitWtp
    /\ wtp_obs = NoWtpObs
    /\ wtp_attempt = NoWtpAttempt

\* geometry responses of the touchpads the model plugs in
WtpInfoReplies ==
    {<<Hi(X_SIZE), Lo(X_SIZE), Hi(Y_SIZE), Lo(Y_SIZE)>>,
     <<Hi(3000), Lo(3000), Hi(2000), Lo(2000)>>}

\* the HID++ core runs the driver's device_init and marks the device
\* initialized when it returns 0
WtpDeviceInit ==
    /\ ~wtp.initialized
    /\ \E oc_state \in RetCodes, oc_info \in RetCodes, params \in WtpInfoReplies :
          LET r == wtp_device_init(wtp, oc_state, oc_info, params) IN
          /\ wtp' = [r.fd EXCEPT !.initialized = (r.ret = 0)]
          /\ wtp_attempt' = WtpAttempt("init", r)
    /\ UNCHANGED <<wtp_obs, tm_vars>>

\* the HID++ core tells the driver that the touchpad came into or went out
\* of range
WtpConnectChange ==
    /\ \E connected \in BOOLEAN, rc \in RetCodes :
          LET r == wtp_connect_change(wtp, connected, rc) IN
          /\ wtp' = r.fd
          /\ wtp_attempt' = WtpAttempt("connect", r)
    /\ UNCHANGED <<wtp_obs, tm_vars>>

\* touch sub-records the touchpad sends in the model: finger id in the high
\* nibble of id, flags or finger count in the low nibble, contact status in
\* the top two bits of y_m
TouchSub(y_m, id) ==
    [x_m |-> 1, x_l |-> 35, y_m |-> y_m, y_l |-> 69, z |-> 10, area |-> 20,
     id |-> id]

\* finger ids of the first and of the second sub-record: in range, shared
\* (1), and out of range on either side (0 and 6)
FirstFingerIds == {0, 1, 3}
SecondFingerIds == {1, 2, 6}
WtpStatusBytes == {0, 64}

FirstSubs ==
    {TouchSub(y_m, fid * 16 + flags) :
        y_m \in WtpStatusBytes, fid \in FirstFingerIds, flags \in {0, 1}}

\* the second sub-record; where the handlers do not read its touch fields
\* one value stands for all
SecondSubs(t1, fc) ==
    IF fc # 0 /\ SecondTouch((t1.id % 2) # 0, fc)
    THEN {TouchSub(y_m, fid * 16 + fc) :
            y_m \in WtpStatusBytes, fid \in SecondFingerIds}
    ELSE {TouchSub(0, fc)}

\* the contact status the records of a report give slot i, Unnamed if none
\* of them names it (the later record wins)
RECURSIVE NamedBy(_, _, _)
NamedBy(fingers, i, k) ==
    IF k = 0 THEN Unnamed
    ELSE IF fingers[k].finger_id - 1 = i
    THEN (IF fingers[k].contact_status # 0 THEN "down" ELSE "up")
    ELSE NamedBy(fingers, i, k - 1)

\* hidpp_raw_event -> hidpp_touchpad_raw_xy_event, for one delivered report
WtpRawEvent ==
    \E t1 \in FirstSubs, fc \in 0 .. 4 : \E t2 \in SecondSubs(t1, fc) :
    \E raw \in {DecodeRawXY(<<t1, t2>>)} :
    \E r \in {wtp_touchpad_raw_xy_event(wtp, raw)} :
    \E hit \in {[i \in WtpSlots |-> NamedBy(raw.fingers, i, Len(raw.fingers))]} :
        LET open == IF EndsFrame(wtp_obs)
                    THEN [i \in WtpSlots |-> Unnamed] ELSE wtp_obs.named
        IN /\ wtp' = r.fd
           /\ wtp_obs' =
                IF r.ret = 0 THEN wtp_obs
                ELSE [handled |-> TRUE,
                      end_of_frame |-> raw.end_of_frame # 0,
                      finger_count |-> raw.finger_count,
                      hit |-> hit,
                      named |-> [i \in WtpSlots |->
                          IF hit[i] = Unnamed THEN open[i] ELSE hit[i]],
                      ev |-> r.ev]
           /\ wtp_attempt' = NoWtpAttempt
           /\ UNCHANGED tm_vars

----------------------------------------------------------------------------
(* Specifications *)

Init == TmInit /\ WtpInit

\* The mouse session, from probe to remove.  fd->work is initialised by
\* tm_probe and cancelled by tm_remove, and nothing in the driver queues it:
\* DelayedWork is not among the steps.
Next ==
    \/ TmProbeBegin
    \/ TmProbeFinish
    \/ TmRawEventOf(CoreReports)
    \/ TmConnectChange
    \/ TmRemove

Spec == Init /\ [][Next]_vars

\* the same, with the session kept running as long as a step is possible
SpecFair == Spec /\ WF_vars(Next)

\* the mouse session under raw-points frames
NextFingers ==
    \/ TmProbeBegin
    \/ TmProbeFinish
    \/ TmRawEventOf(FingerReportsOf(device))
    \/ TmTapRun

SpecFingers == Init /\ [][NextFingers]_vars

\* the mouse session under the reports that carry buttons
NextButtons ==
    \/ TmProbeBegin
    \/ TmProbeFinish
    \/ TmRawEventOf(ButtonReports \cup MouseReports)
    \/ TmConnectChange

SpecButtons == Init /\ [][NextButtons]_vars

\* the mouse session under relative-motion reports
NextMotion ==
    \/ TmProbeBegin
    \/ TmProbeFinish
    \/ TmRawEventOf(MouseReports)

SpecMotion == Init /\ [][NextMotion]_vars

\* the mouse session under raw-points frames, for a mouse of each origin
InitOrigins == TmStart(OriginDevices) /\ WtpInit

NextOrigins ==
    \/ TmProbeBegin
    \/ TmProbeFinish
    \/ TmRawEventOf(FingerReportsOf(device))

SpecOrigins == InitOrigins /\ [][NextOrigins]_vars

\* the handshakes of both sessions: probe and connect events of the mouse,
\* device_init and connect events of the touchpad
NextNegotiation ==
    \/ TmProbeBegin
    \/ TmProbeFinish
    \/ TmConnectChange
    \/ WtpDeviceInit
    \/ WtpConnectChange

SpecNegotiation == Init /\ [][NextNegotiation]_vars

\* the touchpad session
NextWtp ==
    \/ WtpDeviceInit
    \/ WtpRawEvent

\* the mouse driver is not bound while the touchpad session runs
InitWtpOnly ==
    /\ TmInit
    /\ device = CHOOSE d \in Devices : d.product = "T400"
    /\ WtpInit

SpecWtp == InitWtpOnly /\ [][NextWtp]_vars

\* either driver from the moment its probe has registered the session: a
\* run binds one of the two, a T400 if it is the mouse, and reports are
\* delivered whether or not the session is ready for them
NextEarly ==
    \/ WtpInit /\ TmProbeBegin
    \/ TmProbeFinish
    \/ TmRawEventOf(CoreReports)
    \/ tm_state = "unbound" /\ WtpDeviceInit
    \/ tm_state = "unbound" /\ WtpRawEvent

SpecEarly == InitWtpOnly /\ [][NextEarly]_vars

----------------------------------------------------------------------------
(* The fixed-slot tracker: tracking ids *)

\* slot i is in the used-slot set the last frame left
Active(i) == WasUsed(fd.prev_slots_used, i)

\* the events of the last step hand slot i a tracking id
Assigned(i) ==
    \E k \in DOMAIN events :
        /\ events[k].slot = i
        /\ events[k].code = "ABS_MT_TRACKING_ID"
        /\ events[k].value # NoTrackingId

\* the events of the last step report a position for slot i
Positioned(i) ==
    \E k \in DOMAIN events :
        events[k].slot = i /\ events[k].code = "ABS_MT_POSITION_X"

\* C1: a step assigns a tracking id to a slot only if the slot was not in
\* the used-slot set before the step and is in it afterwards, and a slot that
\* is in the used-slot set before and after a step holds the same tracking
\* id before and after it.
C1_IdAssignedOnAppearanceOnly ==
    [][\A i \in SinkSlots :
          /\ Assigned(i)' => ~Active(i) /\ Active(i)'
          /\ Active(i) /\ Active(i)' => slot_tid'[i] = slot_tid[i]]_vars

\* a slot carried over from the previous frame: the last frame reports its
\* position, assigns it no id, and its id is the one it was given before
C1_SlotHeldAcrossFrames ==
    \E i \in SinkSlots :
        /\ Active(i)
        /\ Positioned(i)
        /\ ~Assigned(i)
        /\ slot_tid[i] # NoTrackingId

\* C2: no two slots of the used-slot set hold the same tracking id.
C2_ActiveIdsDistinct ==
    \A i, j \in SinkSlots :
        i # j /\ Active(i) /\ Active(j) => slot_tid[i] # slot_tid[j]

----------------------------------------------------------------------------
(* Button depressors *)

Sources == {DEPRESSOR_MOUSE, DEPRESSOR_RAWPTS, DEPRESSOR_1B03}

ButtonBearing == ButtonReports \cup MouseReports

\* the report carries an observation of button i by source src
Observes(src, i, bytes) ==
    IF src = DEPRESSOR_MOUSE
    THEN At(bytes, 0) = 2 /\ ~fd.ignore_mouse_report_buttons
    ELSE IF src = DEPRESSOR_1B03
    THEN At(bytes, 0) = 17 /\ At(bytes, 2) = fd.feature_1b03 /\ i = 2
    ELSE /\ At(bytes, 0) = 17 /\ At(bytes, 2) = fd.mt_feature_index
         /\ At(bytes, 3) \div 16 = 1 /\ i = 0

\* the observation is 'down'
ObservedDown(src, i, bytes) ==
    IF src = DEPRESSOR_MOUSE THEN BitAt(At(bytes, 1), i) = 1
    ELSE IF src = DEPRESSOR_1B03 THEN At(bytes, 5) # 0
    ELSE BitAt(At(bytes, 4), 1) = 1

\* what emit_buttons does to button i on a report, given who holds it: a
\* button held by source A stays with A unless the report is an 'up'
\* observation of that button by A, which sets it to None; a button held by
\* nobody goes to the source that observes it down and to no other value
DepressorRule ==
    \A bytes \in ButtonBearing : \A i \in Buttons :
        LET a == fd.button_depressor[i]
            after == emit_buttons(fd, bytes)[i]
        IN IF a # DEPRESSOR_NONE
           THEN /\ after \in {a, DEPRESSOR_NONE}
                /\ after = DEPRESSOR_NONE
                     <=> Observes(a, i, bytes) /\ ~ObservedDown(a, i, bytes)
           ELSE \A b \in Sources :
                   after = b <=> Observes(b, i, bytes) /\ ObservedDown(b, i, bytes)

\* C3: in every state of the session and for every report that carries
\* buttons, a 'down' or an 'up' observation by a source B leaves a button
\* held by another source A with A, and only an 'up' observation by A sets
\* it back to None (DepressorRule); and no step of the session takes a
\* depressor from one source to another.
C3_DepressorExclusive ==
    /\ []DepressorRule
    /\ [][\A i \in Buttons :
            fd.button_depressor[i] # DEPRESSOR_NONE
            => fd'.button_depressor[i]
                   \in {fd.button_depressor[i], DEPRESSOR_NONE}]_vars

\* a button held by source A for which a report brings a 'down' observation
\* by another source B, and one for which a report brings an 'up' by B;
\* emit_buttons leaves it with A both times
C3_OtherSourceObserves ==
    \E i \in Buttons : \E b \in Sources \ {fd.button_depressor[i]} :
        /\ fd.button_depressor[i] # DEPRESSOR_NONE
        /\ fd.hid_hw_started
        /\ \E bytes \in ButtonBearing :
              /\ Observes(b, i, bytes) /\ ObservedDown(b, i, bytes)
              /\ emit_buttons(fd, bytes)[i] = fd.button_depressor[i]
        /\ \E bytes \in ButtonBearing :
              /\ Observes(b, i, bytes) /\ ~ObservedDown(b, i, bytes)
              /\ emit_buttons(fd, bytes)[i] = fd.button_depressor[i]

----------------------------------------------------------------------------
(* The identifier-based tracker: frame boundaries *)

\* the last step handled a report
Handled == wtp_obs.handled

\* the handler synchronised the input device on the last report
Synced == \E k \in DOMAIN wtp_obs.ev : wtp_obs.ev[k].code = "SYN_REPORT"

\* C4, as stated: a report that is not a frame boundary (end_of_frame clear
\* and finger_count > 2) turns no active slot inactive.
C4_NoSlotTurnsInactive ==
    [][Handled' /\ ~EndsFrame(wtp_obs')
       => \A i \in WtpSlots :
             wtp.slots[i].touch_state => wtp'.slots[i].touch_state]_vars

\* C4, amended: a report that is not a frame boundary turns an active slot
\* inactive only if a touch sub-record of that report names the slot with
\* contact status 0; a slot the report does not name stays as it is.
C4_InactiveOnlyByOwnRecord ==
    [][Handled' /\ ~EndsFrame(wtp_obs')
       => \A i \in WtpSlots :
             /\ wtp.slots[i].touch_state /\ ~wtp'.slots[i].touch_state
                => wtp_obs'.hit[i] = "up"
             /\ wtp_obs'.hit[i] = Unnamed => wtp'.slots[i] = wtp.slots[i]]_vars

\* after a report that is not a frame boundary, a slot that was active
\* before it, that the report does not name, and that is still active
C4_ActiveSlotSurvivesMidFrame ==
    /\ Handled /\ ~EndsFrame(wtp_obs)
    /\ wtp_obs.finger_count = 3
    /\ \E i \in WtpSlots :
          wtp_obs.hit[i] = Unnamed /\ wtp.slots[i].touch_state

\* C5: the handler declares a frame boundary exactly on a report with
\* end_of_frame set or finger_count <= 2; after such a report every slot
\* that no record named since the previous boundary is inactive, every slot
\* that a record named has the state its last record gave it, and no slot has
\* seen_in_this_frame set.
C5_BoundaryRetiresUnseen ==
    Handled =>
        /\ Synced <=> EndsFrame(wtp_obs)
        /\ EndsFrame(wtp_obs) =>
              \A i \in WtpSlots :
                 /\ ~wtp.slots[i].seen_in_this_frame
                 /\ wtp.slots[i].touch_state <=> wtp_obs.named[i] = "down"

\* a boundary report ends a frame of several reports: a slot named down by
\* an earlier report of the frame is active, and a slot is inactive that no
\* report of the frame named
C5_BoundaryAfterPartialReports ==
    /\ Handled /\ EndsFrame(wtp_obs)
    /\ \E i \in WtpSlots :
          wtp_obs.named[i] = "down" /\ wtp_obs.hit[i] = Unnamed
          /\ wtp.slots[i].touch_state
    /\ \E k \in DOMAIN wtp_obs.ev :
          wtp_obs.ev[k].code = "MT_SLOT_STATE" /\ wtp_obs.ev[k].value = 0
          /\ wtp_obs.ev[k].slot \in WtpSlots
          /\ wtp_obs.named[wtp_obs.ev[k].slot] = Unnamed

----------------------------------------------------------------------------
(* Mode negotiation of the mouse session *)

\* the last step ran a negotiation attempt, and a command of it failed
AttemptFailed == attempt.by # "none" /\ attempt.ret # 0

\* the last step was tm_probe's attempt, which ended on a transport timeout
\* of the enable_raw_mode command (the fifth command)
TimedOutOnEnable ==
    attempt.by = "probe" /\ attempt.failed_at = 5 /\ attempt.ret = 110

\* the last step was the retry task
RetryRan == attempt.by = "work"

\* C6: at the end of a negotiation attempt in which a command failed, the
\* mode flag does not read 'raw' and the retry task is pending.
C6_FailureSchedulesRetry ==
    AttemptFailed => ~fd.in_raw_mode /\ work = "pending"

\* C7: after an attempt that timed out on enable_raw_mode the retry task
\* eventually runs, unless tm_probe fails and frees the session or the
\* driver is removed from the device first, and
\* a retry in which every command succeeds leaves the session in raw mode
\* with the geometry of the device's response.
C7_RetryEventuallySucceeds ==
    /\ TimedOutOnEnable ~> (RetryRan \/ tm_state \in {"removed", "freed"})
    /\ [](RetryRan /\ attempt.ret = 0
          => /\ fd.in_raw_mode
             /\ fd.tp_info.x_size = 256 * At(device.geom, 0) + At(device.geom, 1)
             /\ fd.tp_info.y_size = 256 * At(device.geom, 2) + At(device.geom, 3))

\* C8: whenever the input sink has been started, an enable_raw_mode command
\* has completed successfully before.
C8_SinkStartedOnlyInRawMode ==
    fd.hid_hw_started => raw_enabled

----------------------------------------------------------------------------
(* The fixed-slot tracker: sentinel records and the id allocator *)

\* the finger records of the frames the mouse sends
Frames == {Params(report) : report \in FingerReportsOf(device)}

\* record i of the frame is {0xFF, 0xFF, 0xFF, 0xFF}
AllFF(bytes, i) == \A k \in 0 .. 3 : At(bytes, 4 * i + k) = 255

\* slots of the frame that carry a touch and were not used by the previous
\* frame
Appearing(bytes) ==
    {j \in 0 .. (fd.tp_info.max_fingers - 1) :
        ~AllFF(bytes, j) /\ BitAt(fd.prev_slots_used, j) = 0}

\* C9: in every state of the session and for every frame, emit_fingers
\* answers a record {0xFF,0xFF,0xFF,0xFF} in slot i < max_fingers with a
\* tracking id -1 event for slot i, leaves slot i out of the used-slot set,
\* emits no position or pressure for slot i, and moves the tracking-id
\* counter only by the ids it hands to the slots where a contact appears.
C9_SentinelIsNoContact ==
    \A bytes \in Frames :
        LET r == emit_fingers(fd, bytes) IN
        /\ \A i \in 0 .. (fd.tp_info.max_fingers - 1) :
              AllFF(bytes, i) =>
                /\ \E k \in DOMAIN r.ev :
                      r.ev[k] = Ev(i, "ABS_MT_TRACKING_ID", -1)
                /\ BitAt(r.prev_slots_used, i) = 0
                /\ \A k \in DOMAIN r.ev :
                      r.ev[k].slot = i => r.ev[k].code = "ABS_MT_TRACKING_ID"
        /\ Len(r.allocated) = Cardinality(Appearing(bytes))
        /\ r.next_tracking_id
             = IterateNextId(fd.next_tracking_id, Cardinality(Appearing(bytes)))

\* the last frame lifted a contact: its slot got the tracking id -1 event
\* and is out of the used-slot set, while another slot carries a touch
C9_ContactLifted ==
    /\ fd.hid_hw_started
    /\ \E i, j \in SinkSlots :
          /\ i < fd.tp_info.max_fingers /\ i # j
          /\ \E k \in DOMAIN events :
                events[k] = Ev(i, "ABS_MT_TRACKING_ID", -1)
          /\ ~Active(i) /\ ~Positioned(i)
          /\ Active(j) /\ Positioned(j)
          /\ n_alloc >= 2

\* the ids handed out by the last step, preceded by the one handed out
\* before it
RecentIds == (IF last_id = 0 THEN <<>> ELSE <<last_id>>) \o EmittedIds(events)

\* C10: the first id allocated is 1, every allocated id and the counter lie
\* in 1 .. 0xFFFE, and each id is followed by the next larger one, 0xFFFE
\* by 1.
C10_IdsWithinRangeAndWrap ==
    /\ fd.next_tracking_id \in 1 .. 65534
    /\ \A k \in DOMAIN RecentIds : RecentIds[k] \in 1 .. 65534
    /\ last_id = 0 /\ RecentIds # <<>> => RecentIds[1] = 1
    /\ \A k \in 1 .. (Len(RecentIds) - 1) :
          RecentIds[k + 1] = IF RecentIds[k] = 65534 THEN 1 ELSE RecentIds[k] + 1
    /\ RecentIds # <<>> =>
          fd.next_tracking_id
            = IF RecentIds[Len(RecentIds)] = 65534 THEN 1
              ELSE RecentIds[Len(RecentIds)] + 1

\* the id 0xFFFE has been allocated, and the allocation after it has been
\* made
C10_AllocatedAfterWrap ==
    last_id = 65534 /\ EmittedIds(events) # <<>>

----------------------------------------------------------------------------
(* The fixed-slot tracker: coordinates *)

\* the position events of a run of events for slot i, as <<x, y>> pairs
PositionsOf(ev, i) ==
    {<<ev[k].value, ev[k + 1].value>> : k \in
        {k \in 1 .. (Len(ev) - 1) :
            /\ ev[k].slot = i /\ ev[k].code = "ABS_MT_POSITION_X"
            /\ ev[k + 1].slot = i /\ ev[k + 1].code = "ABS_MT_POSITION_Y"}}

\* the 12-bit raw coordinates packed in a finger record: the high eight bits
\* in bytes 0 and 1, the low four bits of x and y in the two nibbles of byte 2
PackedX(bytes, i) == (At(bytes, 4 * i) * 16) + (At(bytes, 4 * i + 2) % 16)
PackedY(bytes, i) == (At(bytes, 4 * i + 1) * 16) + (At(bytes, 4 * i + 2) \div 16)

\* the position the four origins call for
Transformed(origin, x_size, y_size, raw_x, raw_y) ==
    CASE origin = ORIGIN_LOWER_RIGHT -> <<x_size - raw_x, y_size - raw_y>>
      [] origin = ORIGIN_UPPER_LEFT -> <<raw_x, raw_y>>
      [] origin = ORIGIN_LOWER_LEFT -> <<raw_x, y_size - raw_y>>
      [] origin = ORIGIN_UPPER_RIGHT -> <<x_size - raw_x, raw_y>>

\* C11: in every state of the session whose geometry names one of the four
\* origins and for every frame, emit_fingers reports for every record of a
\* slot i < max_fingers that is not {0xFF,0xFF,0xFF,0xFF} exactly one
\* position, (x_size - raw_x, y_size - raw_y) for origin lower-right,
\* (raw_x, raw_y) for upper-left, (raw_x, y_size - raw_y) for lower-left and
\* (x_size - raw_x, raw_y) for upper-right.
C11_PositionFollowsOrigin ==
    fd.tp_info.origin_position \in ORIGIN_LOWER_LEFT .. ORIGIN_UPPER_RIGHT =>
        \A bytes \in Frames :
            LET r == emit_fingers(fd, bytes) IN
            \A i \in 0 .. (fd.tp_info.max_fingers - 1) :
                ~AllFF(bytes, i) =>
                    PositionsOf(r.ev, i)
                      = {Transformed(fd.tp_info.origin_position,
                                     fd.tp_info.x_size, fd.tp_info.y_size,
                                     PackedX(bytes, i), PackedY(bytes, i))}

\* the last frame of a lower-left mouse put a contact at raw (294, 837) in
\* slot 0 and one at raw (4095, 4095) in slot 1: x is passed on and y is
\* counted from the other edge
C11_LowerLeftFrameEmitted ==
    /\ fd.hid_hw_started
    /\ fd.tp_info.origin_position = ORIGIN_LOWER_LEFT
    /\ PositionsOf(events, 0) = {<<294, fd.tp_info.y_size - 837>>}
    /\ PositionsOf(events, 1) = {<<4095, fd.tp_info.y_size - 4095>>}

----------------------------------------------------------------------------
(* Tool classification *)

ToolKeys ==
    <<"BTN_TOOL_FINGER", "BTN_TOOL_DOUBLETAP", "BTN_TOOL_TRIPLETAP",
      "BTN_TOOL_QUADTAP">>

\* every m-finger boolean among the events is true exactly if m = n
ToolsMatch(ev, n) ==
    \A k \in DOMAIN ev : \A m \in DOMAIN ToolKeys :
        ev[k].code = ToolKeys[m] => ev[k].value = BoolVal(n = m)

\* slots active after the last frame, in the mouse and in the touchpad
ActiveSlots == {i \in SinkSlots : Active(i)}
WtpActiveSlots == {i \in WtpSlots : wtp.slots[i].touch_state}

\* the fixed-slot tracker's part of C12
C12_MouseToolsMatch ==
    ToolsMatch(events, Cardinality(ActiveSlots))

\* the identifier-based tracker's part of C12
C12_TouchpadToolsMatch ==
    Cardinality(WtpActiveSlots) <= 4
        => ToolsMatch(wtp_obs.ev, Cardinality(WtpActiveSlots))

\* C12: after each processed frame, in the mouse session and in the
\* touchpad session, with n slots active (n <= 4) the n-finger boolean among
\* the emitted one-, two-, three- and four-finger booleans is true and the
\* others are false; with no slot active none is true.
C12_ToolMatchesActiveCount ==
    C12_MouseToolsMatch /\ C12_TouchpadToolsMatch

----------------------------------------------------------------------------
(* Slot-array bounds *)

\* C13: whatever finger identifiers the reports carry, the touchpad handler
\* writes no element outside fd->slots[0 .. 4], and it reports no slot state
\* for a slot outside 0 .. 4: a record whose index is out of range is
\* ignored.
C13_SlotIndexInRange ==
    /\ ~wtp.oob_write
    /\ \A k \in DOMAIN wtp_obs.ev :
          wtp_obs.ev[k].code = "MT_SLOT_STATE" => wtp_obs.ev[k].slot \in WtpSlots

----------------------------------------------------------------------------
(* Reconnect *)

\* every command of the log is the command `name`
OnlyCmd(log, name) == \A k \in DOMAIN log : log[k].cmd = name

\* the mouse session exists: tm_probe has set it up and it is not freed
TmLive == tm_state \in {"probing", "bound"}

\* C14: a connect event that reaches the mouse session after a successful
\* negotiation and with the sink started makes it send enable_raw_mode
\* commands only, and one that reaches the initialized touchpad session
\* set_raw_report_state commands only; a 'disconnected' event, or a
\* 'connected' event while the sink is not started (touchpad: not
\* initialized), sends no command.
C14_ReconnectOnlyEnables ==
    [][/\ TmConnectChange =>
             IF fd.hid_hw_started
             THEN raw_enabled => OnlyCmd(cmd_log', "enable_raw_mode")
             ELSE cmd_log' = <<>>
       /\ TmLive => \A oc \in Outcomes :
             tm_connect_change(fd, device, FALSE, oc).log = <<>>
       /\ WtpConnectChange =>
             IF wtp.initialized
             THEN OnlyCmd(wtp_attempt'.log, "set_raw_report_state")
             ELSE wtp_attempt'.log = <<>>
       /\ \A rc \in RetCodes :
             wtp_connect_change(wtp, FALSE, rc).log = <<>>]_vars

\* the feature indices and the geometry the mouse session has stored
Stored(f) == <<f.mt_feature_index, f.feature_1b03, f.tp_info>>

\* C15: when a connect event has run the reconnect step with every command
\* succeeding and the step is run once more with every command succeeding,
\* the stored feature indices and the stored geometry are the ones from
\* before the first run, and the session after the second run is the
\* session after the first; in the mouse and in the touchpad.
C15_ReconnectIdempotent ==
    [][/\ TmConnectChange /\ attempt'.by = "connect" /\ attempt'.ret = 0 =>
             LET again == tm_connect_change(fd', device, TRUE, AllOk) IN
             /\ Stored(again.fd) = Stored(fd)
             /\ again.fd = fd'
       /\ WtpConnectChange /\ wtp_attempt'.by = "connect"
                           /\ wtp_attempt'.ret = 0 =>
             LET again == wtp_connect_change(wtp', TRUE, 0) IN
             /\ again.fd.x_size = wtp.x_size /\ again.fd.y_size = wtp.y_size
             /\ again.fd = wtp']_vars

----------------------------------------------------------------------------
(* Locking discipline of the mouse session *)

\* C18: every read or write of in_raw_mode, hid_hw_started, tp_info,
\* mt_feature_index and feature_1b03 that a step of the session makes is made
\* with fd->lock held, and no command is sent to the device with fd->lock
\* held.
C18_AccessesUnderLock ==
    \A a \in touched : IF a.op = "send" THEN ~a.locked ELSE a.locked

----------------------------------------------------------------------------
(* The handshake *)

\* the command that failed is the last one sent, and the attempt returns
\* its return code negated (return -ret)
AbortsAtFirstFailure(log, rets, ret) ==
    /\ Len(log) = Len(rets)
    /\ \A k \in DOMAIN rets :
          rets[k] # 0 => k = Len(log) /\ ret = -rets[k]

\* C19: in every negotiation attempt of the mouse session and of the
\* touchpad session, a command for which the transport returned a failure
\* or a timeout is the last command the attempt sent, and the attempt's
\* result is that command's failure.
C19_AbortsAtFirstFailure ==
    /\ attempt.by # "none"
          => AbortsAtFirstFailure(cmd_log, attempt.rets, attempt.ret)
    /\ wtp_attempt.by # "none"
          => AbortsAtFirstFailure(wtp_attempt.log, wtp_attempt.rets,
                                  wtp_attempt.ret)

\* tm_probe's attempt stopped at the second feature lookup, its third
\* command, and wtp_device_init stopped at its first command on a timeout
C19_AbortedMidway ==
    /\ attempt.by = "probe"
    /\ Len(cmd_log) = 3 /\ cmd_log[3].cmd = "resolve_1b03"
    /\ attempt.rets[3] # 0 /\ attempt.ret = -attempt.rets[3]
    /\ wtp_attempt.by = "init"
    /\ Len(wtp_attempt.log) = 1 /\ wtp_attempt.rets = <<-110>>
    /\ wtp_attempt.ret = 110

\* the root-version query is the first command of the last attempt and the
\* transport returned a failure or a timeout for it
RootVersionFailed ==
    /\ attempt.by # "none"
    /\ cmd_log[1].cmd = "root_version"
    /\ attempt.rets[1] # 0

\* C20, as stated: when the root-version query fails the attempt goes on
\* with the later commands, and when none of those fails it sends all five
\* commands and succeeds.
C20_RootVersionBestEffort ==
    RootVersionFailed =>
        /\ Len(cmd_log) >= 2
        /\ (\A k \in 2 .. Len(attempt.rets) : attempt.rets[k] = 0)
              => Len(cmd_log) = 5 /\ attempt.ret = 0

\* C20, amended: the outcome of the root-version query is enforced.  When
\* it fails it is the only command the attempt sends and the attempt fails
\* with its failure; the feature lookups, the geometry query and
\* enable_raw_mode are sent only in attempts whose root-version query
\* succeeded.
C20_RootVersionEnforced ==
    /\ RootVersionFailed
          => Len(cmd_log) = 1 /\ attempt.ret = -attempt.rets[1]
    /\ attempt.by # "none" /\ Len(cmd_log) >= 2
          => cmd_log[1].cmd = "root_version" /\ attempt.rets[1] = 0

\* tm_probe's attempt ended on a HID++ error returned for the root-version
\* query
C20_ProbeStoppedAtRootVersion ==
    /\ attempt.by = "probe"
    /\ RootVersionFailed
    /\ attempt.rets = <<2>>
    /\ attempt.ret = -2

----------------------------------------------------------------------------
(* What a failed handshake leaves behind *)

\* C21: a negotiation attempt of tm_probe or of a connect event that fails,
\* at whichever command, in a session that stays alive leaves the stored
\* raw-touch feature index, the stored secondary-button feature index and
\* the stored touchpad geometry as they were before the attempt.
C21_FailedAttemptStoresNothing ==
    [][(TmProbeFinish \/ TmConnectChange)
          /\ attempt'.by # "none" /\ attempt'.ret # 0
          /\ tm_state' \in {"probing", "bound"}
       => Stored(fd') = Stored(fd)]_vars

----------------------------------------------------------------------------
(* Relative motion *)

\* the value a 12-bit two's-complement field v in 0 .. 4095 stands for
TwosComplement12(v) == IF v >= 2048 THEN v - 4096 ELSE v

\* the two 12-bit fields of the packed bytes: b0 | (b1 & 0xF) << 8 and
\* (b2 << 4) | (b1 >> 4)
PackedDx(b0, b1) == b0 + (256 * (b1 % 16))
PackedDy(b1, b2) == (16 * b2) + (b1 \div 16)

\* a mouse report with button byte b, third byte s and motion bytes b0 b1 b2
MotionReport(b, s, b0, b1, b2) ==
    Pad(<<REPORT_ID_MOUSE, b, s, b0, b1, b2>>, ReportLen)

AllBytes == 0 .. 255
Nibbles == 0 .. 15

\* what the rest of a mouse report holds while one field is examined: the
\* other nibble of the shared byte, the other field's own byte, the button
\* byte and the third byte
Surroundings == {<<0, 0, 0, 0>>, <<15, 255, 5, 7>>}

IsRel(e) == e.code \in {"REL_X", "REL_Y"}

\* C22: with the sink started, in every state of the session and for every
\* value of the motion bytes b0, b1, b2, tm_raw_event reports for a mouse
\* report exactly one REL_X, the 12-bit two's-complement value of
\* b0 | (b1 & 0xF) << 8, and one REL_Y, that of (b2 << 4) | (b1 >> 4), both
\* within -2048 .. 2047 and the same whatever else the session and the
\* report hold; and every relative value the session has emitted is within
\* that range.
C22_RelativeMotionDecode ==
    /\ fd.hid_hw_started =>
          \A a \in AllBytes, n \in Nibbles, o \in Surroundings :
             LET b1x == n + (16 * o[1])
                 b1y == (16 * n) + o[1]
                 evx == tm_raw_event(fd, MotionReport(o[3], o[4],
                                                      a, b1x, o[2])).ev
                 evy == tm_raw_event(fd, MotionReport(o[3], o[4],
                                                      o[2], b1y, a)).ev
                 dx == TwosComplement12(PackedDx(a, b1x))
                 dy == TwosComplement12(PackedDy(b1y, a))
             IN /\ evx[1] = Ev(NoSlot, "REL_X", dx)
                /\ evy[2] = Ev(NoSlot, "REL_Y", dy)
                /\ Len(SelectSeq(evx, IsRel)) = 2
                /\ Len(SelectSeq(evy, IsRel)) = 2
                /\ dx \in -2048 .. 2047 /\ dy \in -2048 .. 2047
    /\ \A k \in DOMAIN events :
          IsRel(events[k]) => events[k].value \in -2048 .. 2047

\* a mouse report with both fields negative has been handled: bytes FF 7F 80
\* give dx = -1 and dy = -2041
C22_NegativeMotionReported ==
    /\ fd.hid_hw_started
    /\ Len(events) >= 2
    /\ events[1] = Ev(NoSlot, "REL_X", -1)
    /\ events[2] = Ev(NoSlot, "REL_Y", -2041)

----------------------------------------------------------------------------
(* The ignored button source *)

\* mouse reports with every combination of the three button bits
AnyButtonsMouseReports == {MotionReport(b, 0, 0, 0, 0) : b \in 0 .. 7}

\* the session as it would be on a model without the ignore flag
WithoutIgnore(f) == [f EXCEPT !.ignore_mouse_report_buttons = FALSE]

\* on a started session with the ignore flag, emit_buttons leaves every depressor
\* as it is on a mouse report, and does on a feature report what it does on
\* a session without the flag
MouseSourceIgnored ==
    fd.ignore_mouse_report_buttons /\ fd.hid_hw_started =>
       /\ \A report \in AnyButtonsMouseReports \cup MouseReports :
             emit_buttons(fd, report) = fd.button_depressor
       /\ \A report \in ButtonReports :
             emit_buttons(fd, report) = emit_buttons(WithoutIgnore(fd), report)

\* C23: the ignore flag is set on the T620 and on no other model; on a
\* session with the flag a mouse report (id 0x02) sets and clears no
\* depressor, whatever its button bits, and no handled mouse report changes
\* one; the 0x1b03 and the raw-points button reports act as on a session
\* without the flag.
C23_IgnoredMouseButtons ==
    /\ [](fd.ignore_mouse_report_buttons <=> device.product = "T620")
    /\ []MouseSourceIgnored
    /\ [][device.product = "T620" /\ TmRawEventOf(MouseReports)
            => fd'.button_depressor = fd.button_depressor]_vars

\* a T620 has handled a mouse report while the 0x1b03 source holds the
\* middle button and nobody holds the left one
C23_MouseReportOnT620 ==
    /\ device.product = "T620"
    /\ fd.hid_hw_started
    /\ Len(events) >= 1 /\ events[1].code = "REL_X"
    /\ fd.button_depressor[idx_middle] = DEPRESSOR_1B03
    /\ fd.button_depressor[idx_left] = DEPRESSOR_NONE
    /\ \E report \in MouseReports :
          BitAt(At(report, 1), idx_left) = 1 /\ BitAt(At(report, 1), idx_middle) = 1

----------------------------------------------------------------------------
(* Reports that arrive before the session is ready *)

\* the decoded reports the touchpad sends in the model
WtpRawReports ==
    {DecodeRawXY(<<t1, t2>>) :
        t1 \in FirstSubs, t2 \in {TouchSub(y_m, fid * 16 + fc) :
            y_m \in WtpStatusBytes, fid \in SecondFingerIds, fc \in 0 .. 4}}

\* what the handlers do with a report while the session is registered and
\* not ready: the
\* mouse handler hands back the session as it is and no event, the touchpad
\* handler likewise, returning 0
EarlyReportsDropped ==
    /\ tm_state = "probing" /\ ~fd.hid_hw_started =>
          \A report \in CoreReports \cup MouseReports \cup ButtonReports :
             tm_raw_event(fd, report)
                = [fd |-> fd, allocated |-> <<>>, ev |-> <<>>]
    /\ ~wtp.initialized =>
          \A raw \in WtpRawReports :
             wtp_touchpad_raw_xy_event(wtp, raw)
                = [fd |-> wtp, ev |-> <<>>, ret |-> 0]

\* C24: a report delivered to the mouse session while the sink is not
\* started emits no event and leaves the used-slot set, the tracking ids of
\* the slots, the tracking-id counter and the depressors as they are; a
\* report delivered to the touchpad session while the device is not
\* initialized emits no event and leaves the slots as they are.
C24_EarlyReportsChangeNothing ==
    /\ []EarlyReportsDropped
    /\ [][/\ ~fd.hid_hw_started /\ TmRawEventOf(CoreReports)
             => /\ events' = <<>>
                /\ fd' = fd
                /\ slot_tid' = slot_tid
                /\ n_alloc' = n_alloc
          /\ ~wtp.initialized /\ WtpRawEvent
             => /\ wtp' = wtp
                /\ wtp_obs' = wtp_obs]_vars

\* tm_probe has registered the session and not yet started the sink, and a
\* report that a started session would have turned into events has gone
\* through tm_raw_event, which read hid_hw_started and nothing else; the
\* touchpad is not initialized either
C24_ReportBeforeSinkStarted ==
    /\ tm_state = "probing"
    /\ ~fd.hid_hw_started
    /\ touched = {Acc("hid_hw_started", "read", FALSE)}
    /\ events = <<>>
    /\ \A report \in CoreReports : HandleReport(fd, report).ev # <<>>
    /\ ~wtp.initialized

----------------------------------------------------------------------------
(* The buttons each source carries *)

\* reports of every id, with every feature index of the model in the sub_id
\* byte, sub-events 0 and 1, and button bytes set and clear
AnyReports ==
    {Pad(<<id, b, idx, sub, p0, p1>>, ReportLen) :
        id \in {REPORT_ID_MOUSE, 16, REPORT_ID_HIDPP_LONG}, b \in {0, 7},
        idx \in SubIds, sub \in {0, 16}, p0 \in {0, 2}, p1 \in {0, 1}}

\* the buttons whose depressor emit_buttons changes on the report
Changed(report) ==
    {i \in Buttons : emit_buttons(fd, report)[i] # fd.button_depressor[i]}

\* the report comes from the mouse's 0x1b03 feature
From1B03(report) ==
    At(report, 0) = REPORT_ID_HIDPP_LONG /\ At(report, 2) = device.idx_1b03

\* the report is sub-event 1 of the mouse's raw-points feature
FromRawPtsButtons(report) ==
    /\ At(report, 0) = REPORT_ID_HIDPP_LONG
    /\ At(report, 2) = device.idx_rawpts
    /\ Shr(At(report, 3), 4) = 1

\* C25: in every state of a started session and for every report, a report
\* of the mouse's 0x1b03 feature changes no depressor but the middle
\* button's, sub-event 1 of its raw-points feature changes none but the left
\* button's, a depressor that changes is one of a button carried by a source
\* whose pattern the report matches (so a report that matches no pattern
\* changes none, and one that the session matches against the patterns of
\* two sources changes buttons of those two at most), and the right
\* button's depressor is None or DEPRESSOR_MOUSE.
C25_SourcesTouchOwnButtons ==
    /\ fd.hid_hw_started =>
          \A report \in AnyReports \cup ButtonBearing :
             /\ From1B03(report) => Changed(report) \subseteq {idx_middle}
             /\ FromRawPtsButtons(report) => Changed(report) \subseteq {idx_left}
             /\ \A i \in Changed(report) :
                   \E src \in Sources : Observes(src, i, report)
    /\ fd.button_depressor[1] \in {DEPRESSOR_NONE, DEPRESSOR_MOUSE}

\* each source holds a button of a T400: raw-points the left one, the mouse
\* report the right one, 0x1b03 the middle one
C25_EverySourceHoldsAButton ==
    /\ device.product = "T400"
    /\ fd.hid_hw_started
    /\ fd.mt_feature_index = device.idx_rawpts
    /\ fd.feature_1b03 = device.idx_1b03
    /\ fd.button_depressor[idx_left] = DEPRESSOR_RAWPTS
    /\ fd.button_depressor[1] = DEPRESSOR_MOUSE
    /\ fd.button_depressor[idx_middle] = DEPRESSOR_1B03

============================================================================
